---- MODULE Spec2Model ----
(***************************************************************************)
(* The alarm scheduler of src/tools/alarm.py: the AlarmManager registry    *)
(* (alarms), its table of waiter tasks (alarm_tasks), the asyncio tasks    *)
(* running _wait_for_alarm, the notification sink (mcp_app._session) and   *)
(* the snooze_alarm tool built on top of the manager.                      *)
(*                                                                         *)
(* asyncio runs one coroutine at a time and switches only at an await that *)
(* suspends.  create_alarm, delete_alarm and snooze_alarm never suspend    *)
(* (delete_alarm holds no await), so each is one atomic action.  A waiter  *)
(* suspends in three places: before its first step (asyncio.create_task    *)
(* only schedules it), in asyncio.sleep, and in send_notification.         *)
(***************************************************************************)
EXTENDS Integers, Sequences, FiniteSets, TLC

\* ---------------------------------------------------------------- bounds
MaxTime == 2          \* the clock runs over 0..MaxTime
MaxInst == 2          \* successful create_alarm calls in one run

\* An absent dictionary entry (dict.get returning None, "not in").
None == [absent |-> TRUE]

\* alarm_id not in self.alarm_tasks; tasks are numbered from 1.
NoTask == 0

\* f"{alarm_id}_snooze"
SnoozeId(alarm_id) == alarm_id \o "_snooze"

\* f"贪睡闹钟: {alarm['message']}"
SnoozeMessage(message) == "snooze: " \o message

\* The inputs the callers draw from.
AlarmIds == {"a", SnoozeId("a")}
\* The code copies a message and never inspects it: every create_alarm call
\* brings a message of its own ("m1", "m2", ...), so that a notification tells
\* which call it stems from.
Message(n) == "m" \o ToString(n)
Times == 0..MaxTime
Minutes == {0, 1}

VARIABLES
    now,            \* datetime.now()
    session,        \* whether mcp_app has a truthy _session (the sink is connected)
    alarms,         \* AlarmManager.alarms: alarm_id -> Alarm, None when absent
    alarm_tasks,    \* AlarmManager.alarm_tasks: alarm_id -> task number, NoTask when absent
    tasks,          \* the asyncio tasks created so far, in creation order
    notifications   \* the send_notification calls made so far, in order

vars == <<now, session, alarms, alarm_tasks, tasks, notifications>>

\* The part of the state that AlarmManager's methods read and write; ret is
\* the value the method returns.
St == [alarms |-> alarms, alarm_tasks |-> alarm_tasks, tasks |-> tasks,
       notifications |-> notifications, ret |-> FALSE]

Commit(S) ==
    \E T \in {S} :
        /\ alarms' = T.alarms
        /\ alarm_tasks' = T.alarm_tasks
        /\ tasks' = T.tasks
        /\ notifications' = T.notifications

Finished == {"done", "cancelled"}

\* Variant of cancel: the request is lost.
cancel_lost(T, k) == T

\* asyncio.Task.cancel(): a no-op on a finished task, otherwise a CancelledError
\* is thrown into the coroutine at its next step.
cancel(T, k) ==
    IF T[k].pc \in Finished THEN T ELSE [T EXCEPT ![k].cancel_requested = TRUE]

\* Variant of delete_alarm: reports success for an id that is not registered.
delete_alarm_always_true(S, alarm_id) ==
    [S EXCEPT
        !.tasks = IF S.alarm_tasks[alarm_id] # NoTask
                  THEN cancel(S.tasks, S.alarm_tasks[alarm_id])
                  ELSE S.tasks,
        !.alarm_tasks = [S.alarm_tasks EXCEPT ![alarm_id] = NoTask],
        !.alarms = [S.alarms EXCEPT ![alarm_id] = None],
        !.ret = TRUE]

\* Variant of delete_alarm: the task is cancelled but its handle stays in
\* alarm_tasks.
delete_alarm_keep_handle(S, alarm_id) ==
    IF S.alarms[alarm_id] = None
    THEN [S EXCEPT !.ret = FALSE]
    ELSE [S EXCEPT
            !.tasks = IF S.alarm_tasks[alarm_id] # NoTask
                      THEN cancel(S.tasks, S.alarm_tasks[alarm_id])
                      ELSE S.tasks,
            !.alarms = [S.alarms EXCEPT ![alarm_id] = None],
            !.ret = TRUE]

\* Variant of delete_alarm: empties both tables instead of removing one id.
delete_alarm_clear_all(S, alarm_id) ==
    IF S.alarms[alarm_id] = None
    THEN [S EXCEPT !.ret = FALSE]
    ELSE [S EXCEPT
            !.tasks = IF S.alarm_tasks[alarm_id] # NoTask
                      THEN cancel(S.tasks, S.alarm_tasks[alarm_id])
                      ELSE S.tasks,
            !.alarm_tasks = [i \in AlarmIds |-> NoTask],
            !.alarms = [i \in AlarmIds |-> None],
            !.ret = TRUE]

\* AlarmManager.delete_alarm
delete_alarm(S, alarm_id) ==
    IF S.alarms[alarm_id] = None
    THEN [S EXCEPT !.ret = FALSE]
    ELSE [S EXCEPT
            !.tasks = IF S.alarm_tasks[alarm_id] # NoTask
                      THEN cancel(S.tasks, S.alarm_tasks[alarm_id])
                      ELSE S.tasks,
            !.alarm_tasks = [S.alarm_tasks EXCEPT ![alarm_id] = NoTask],
            !.alarms = [S.alarms EXCEPT ![alarm_id] = None],
            !.ret = TRUE]

\* Variant of Alarm: the active field defaults to False.
Alarm_inactive(alarm_id, alarm_time, message, inst) ==
    [id |-> alarm_id, time |-> alarm_time, message |-> message,
     created_at |-> now, active |-> FALSE, inst |-> inst]

\* Alarm(id, time, message, created_at); inst is the identity of the object.
Alarm(alarm_id, alarm_time, message, inst) ==
    [id |-> alarm_id, time |-> alarm_time, message |-> message,
     created_at |-> now, active |-> TRUE, inst |-> inst]

\* asyncio.create_task(self._wait_for_alarm(alarm_id)): scheduled, not yet run.
NewTask(alarm_id) ==
    [alarm_id |-> alarm_id, pc |-> "new", cancel_requested |-> FALSE,
     wake |-> 0]

\* Variant of create_alarm: overwrites a registered alarm without deleting it,
\* so the old task is never cancelled.
create_alarm_keep_old(S, alarm_id, alarm_time, message) ==
    IF alarm_time <= now
    THEN [S EXCEPT !.ret = FALSE]
    ELSE LET k == Len(S.tasks) + 1
         IN  [S EXCEPT
                !.alarms = [S.alarms EXCEPT ![alarm_id] =
                               Alarm(alarm_id, alarm_time, message, k)],
                !.tasks = Append(S.tasks, NewTask(alarm_id)),
                !.alarm_tasks = [S.alarm_tasks EXCEPT ![alarm_id] = k],
                !.ret = TRUE]

\* Variant of create_alarm: deletes the registered alarm before it looks at
\* the time.
create_alarm_delete_first(S, alarm_id, alarm_time, message) ==
    LET D == IF S.alarms[alarm_id] # None THEN delete_alarm(S, alarm_id) ELSE S
        k == Len(D.tasks) + 1
    IN  IF alarm_time <= now
        THEN [D EXCEPT !.ret = FALSE]
        ELSE [D EXCEPT
                !.alarms = [D.alarms EXCEPT ![alarm_id] =
                               Alarm(alarm_id, alarm_time, message, k)],
                !.tasks = Append(D.tasks, NewTask(alarm_id)),
                !.alarm_tasks = [D.alarm_tasks EXCEPT ![alarm_id] = k],
                !.ret = TRUE]

\* AlarmManager.create_alarm
create_alarm(S, alarm_id, alarm_time, message) ==
    IF alarm_time <= now
    THEN [S EXCEPT !.ret = FALSE]
    ELSE LET D == IF S.alarms[alarm_id] # None THEN delete_alarm(S, alarm_id) ELSE S
             k == Len(D.tasks) + 1
         IN  [D EXCEPT
                !.alarms = [D.alarms EXCEPT ![alarm_id] =
                               Alarm(alarm_id, alarm_time, message, k)],
                !.tasks = Append(D.tasks, NewTask(alarm_id)),
                !.alarm_tasks = [D.alarm_tasks EXCEPT ![alarm_id] = k],
                !.ret = TRUE]

\* Variant of get_alarm: remaining_seconds without the max(0, ...).
get_alarm_no_floor(S, alarm_id) ==
    IF S.alarms[alarm_id] = None
    THEN None
    ELSE LET alarm == S.alarms[alarm_id]
         IN  [id |-> alarm.id, time |-> alarm.time, message |-> alarm.message,
              created_at |-> alarm.created_at, active |-> alarm.active,
              remaining_seconds |-> alarm.time - now]

\* AlarmManager.list_alarms: self.alarms.values() runs in insertion order, and
\* an Alarm is inserted when it is made (a reused key is deleted first), so the
\* order is that of inst.
list_alarms(S) ==
    LET R == {i \in AlarmIds : S.alarms[i] # None}
        nth(n) == CHOOSE i \in R :
                      Cardinality({j \in R : S.alarms[j].inst < S.alarms[i].inst}) = n - 1
    IN  [n \in 1..Cardinality(R) |->
            LET alarm == S.alarms[nth(n)]
            IN  [id |-> alarm.id, time |-> alarm.time, message |-> alarm.message,
                 created_at |-> alarm.created_at, active |-> alarm.active,
                 remaining_seconds |->
                     IF alarm.time - now > 0 THEN alarm.time - now ELSE 0]]

\* AlarmManager.get_alarm
get_alarm(S, alarm_id) ==
    IF S.alarms[alarm_id] = None
    THEN None
    ELSE LET alarm == S.alarms[alarm_id]
         IN  [id |-> alarm.id, time |-> alarm.time, message |-> alarm.message,
              created_at |-> alarm.created_at, active |-> alarm.active,
              remaining_seconds |->
                  IF alarm.time - now > 0 THEN alarm.time - now ELSE 0]

\* The coroutine returns: a task whose cancellation was requested but never
\* delivered ends cancelled (Task.__step on StopIteration with _must_cancel).
finish(S, k) ==
    [S EXCEPT !.tasks[k].pc =
                 IF S.tasks[k].cancel_requested THEN "cancelled" ELSE "done"]

\* Variant of retire: the alarm is not deleted after the notification.
retire_no_delete(S, k) == finish(S, k)

\* AlarmManager._trigger_alarm, its last statement: await self.delete_alarm(alarm_id),
\* after which _trigger_alarm and _wait_for_alarm return.  The value delete_alarm
\* returns here goes to the waiter, not to a caller.
retire(S, k) ==
    LET D == delete_alarm(S, S.tasks[k].alarm_id)
    IN  finish([D EXCEPT !.ret = S.ret], k)

\* AlarmManager._trigger_alarm up to the sink call: with a session the waiter
\* calls send_notification and suspends in it, without one it goes on to retire.
trigger_alarm(S, k) ==
    LET alarm_id == S.tasks[k].alarm_id
        alarm == S.alarms[alarm_id]
    IN  IF alarm = None
        THEN finish(S, k)
        ELSE IF session
        THEN [S EXCEPT
                !.notifications = Append(S.notifications,
                    [alarm_id |-> alarm_id, message |-> alarm.message,
                     triggered_at |-> now, original_time |-> alarm.time,
                     inst |-> alarm.inst]),
                !.tasks[k].pc = "insink"]
        ELSE retire(S, k)

\* Variant of send_done: a raised error is retried.
send_done_retry(S, k, raised) ==
    IF raised THEN trigger_alarm(S, k) ELSE retire(S, k)

\* Variant of send_done: a raised error leaves _trigger_alarm, so the alarm is
\* never deleted and the task ends with the error.
send_done_propagate(S, k, raised) ==
    IF raised THEN finish(S, k) ELSE retire(S, k)

\* AlarmManager._trigger_alarm after send_notification: the call returned, or
\* it raised an Exception that the except clause caught and logged; either
\* way the alarm is deleted next.
send_done(S, k, raised) == retire(S, k)

\* AlarmManager._wait_for_alarm after the sleep: the check that the alarm is
\* still registered and active.
check_active(S, k) ==
    LET alarm_id == S.tasks[k].alarm_id
    IN  IF S.alarms[alarm_id] # None /\ S.alarms[alarm_id].active
        THEN trigger_alarm(S, k)
        ELSE finish(S, k)

\* asyncio.sleep returns (its timer is gone) and the waiter goes on to the check.
after_sleep(S, k) == check_active([S EXCEPT !.tasks[k].wake = 0], k)

\* Variant of wait_for_alarm: the sleep is skipped.
wait_for_alarm_no_sleep(S, k) ==
    IF S.alarms[S.tasks[k].alarm_id] = None THEN finish(S, k) ELSE check_active(S, k)

\* AlarmManager._wait_for_alarm, the task's first step: up to the sleep, or
\* straight through when the deadline has already passed.
wait_for_alarm(S, k) ==
    LET alarm == S.alarms[S.tasks[k].alarm_id]
    IN  IF alarm = None
        THEN finish(S, k)
        ELSE IF alarm.time - now > 0
        THEN [S EXCEPT !.tasks[k].pc = "sleep", !.tasks[k].wake = alarm.time]
        ELSE check_active(S, k)

\* Variant of cancelled: _trigger_alarm's except clause also catches the
\* CancelledError thrown into send_notification, and goes on to delete_alarm.
cancelled_caught_in_trigger(S, k) ==
    IF S.tasks[k].pc = "insink"
    THEN LET D == delete_alarm(S, S.tasks[k].alarm_id)
         IN  [D EXCEPT !.ret = S.ret, !.tasks[k].pc = "done", !.tasks[k].wake = 0]
    ELSE [S EXCEPT !.tasks[k].pc = IF S.tasks[k].pc = "new" THEN "cancelled" ELSE "done",
                   !.tasks[k].wake = 0]

\* The CancelledError reaches the coroutine.  A task that never ran ends
\* cancelled; in asyncio.sleep or in send_notification the error leaves
\* _trigger_alarm (except Exception does not catch it) and is caught by
\* _wait_for_alarm's except asyncio.CancelledError, which returns normally.
cancelled(S, k) ==
    [S EXCEPT !.tasks[k].pc = IF S.tasks[k].pc = "new" THEN "cancelled" ELSE "done",
              !.tasks[k].wake = 0]

\* Variant of snooze_alarm: the original alarm is not deleted.
snooze_alarm_keep_original(S, alarm_id, minutes) ==
    LET alarm == get_alarm(S, alarm_id)
    IN  IF alarm = None
        THEN [S EXCEPT !.ret = FALSE]
        ELSE create_alarm(S, SnoozeId(alarm_id),
                          now + minutes, SnoozeMessage(alarm.message))

\* The snooze_alarm tool.
snooze_alarm(S, alarm_id, minutes) ==
    LET alarm == get_alarm(S, alarm_id)
    IN  IF alarm = None
        THEN [S EXCEPT !.ret = FALSE]
        ELSE create_alarm(delete_alarm(S, alarm_id), SnoozeId(alarm_id),
                          now + minutes, SnoozeMessage(alarm.message))

\* One atomic step of the program: S is the state the code leaves behind.
Step(S) == Commit(S) /\ UNCHANGED <<now, session>>

\* ---------------------------------------------------------------- actions
Init ==
    /\ now = 0
    /\ session \in BOOLEAN
    /\ alarms = [i \in AlarmIds |-> None]
    /\ alarm_tasks = [i \in AlarmIds |-> NoTask]
    /\ tasks = <<>>
    /\ notifications = <<>>

\* Time passes.
Tick ==
    /\ now < MaxTime
    /\ now' = now + 1
    /\ UNCHANGED <<session, alarms, alarm_tasks, tasks, notifications>>

\* A client session connects or disconnects.
SessionChange ==
    /\ session' = ~session
    /\ UNCHANGED <<now, alarms, alarm_tasks, tasks, notifications>>

\* The bound: at most MaxInst calls succeed.
CreateAlarm(alarm_id, alarm_time, message) ==
    /\ alarm_time <= now \/ Len(tasks) < MaxInst
    /\ Step(create_alarm(St, alarm_id, alarm_time, message))

DeleteAlarm(alarm_id) ==
    Step(delete_alarm(St, alarm_id))

\* get_alarm called by a tool: a read that returns a snapshot.
GetAlarm(alarm_id) ==
    Step([St EXCEPT !.ret = get_alarm(St, alarm_id)])

\* list_alarms called by a tool.
ListAlarms ==
    Step([St EXCEPT !.ret = list_alarms(St)])

\* The bounds keep the derived id among AlarmIds and the new deadline on the clock.
SnoozeAlarm(alarm_id, minutes) ==
    /\ alarms[alarm_id] # None =>
          /\ SnoozeId(alarm_id) \in AlarmIds
          /\ now + minutes \in Times
          /\ minutes <= 0 \/ Len(tasks) < MaxInst
    /\ Step(snooze_alarm(St, alarm_id, minutes))

\* The event loop runs the task for the first time.
WaiterStart(k) ==
    /\ tasks[k].pc = "new" /\ ~tasks[k].cancel_requested
    /\ Step(wait_for_alarm(St, k))

\* Variant of WaiterWake: a waiter is not resumed while another one is inside
\* send_notification.
WaiterWake_serial(k) ==
    /\ tasks[k].pc = "sleep" /\ ~tasks[k].cancel_requested
    /\ now >= tasks[k].wake
    /\ \A j \in 1..Len(tasks) : tasks[j].pc # "insink"
    /\ Step(after_sleep(St, k))

\* The sleep's timer has expired and the event loop resumes the task.
WaiterWake(k) ==
    /\ tasks[k].pc = "sleep" /\ ~tasks[k].cancel_requested
    /\ now >= tasks[k].wake
    /\ Step(after_sleep(St, k))

\* send_notification returns.
SinkReturn(k) ==
    /\ tasks[k].pc = "insink" /\ ~tasks[k].cancel_requested
    /\ Step(send_done(St, k, FALSE))

\* send_notification raises an Exception: logged, then the alarm is deleted.
SinkRaise(k) ==
    /\ tasks[k].pc = "insink" /\ ~tasks[k].cancel_requested
    /\ Step(send_done(St, k, TRUE))

\* The event loop delivers a requested cancellation.
WaiterCancelled(k) ==
    /\ tasks[k].pc \notin Finished /\ tasks[k].cancel_requested
    /\ Step(cancelled(St, k))

Next ==
    \/ Tick
    \/ SessionChange
    \/ \E i \in AlarmIds, t \in Times : CreateAlarm(i, t, Message(Len(tasks) + 1))
    \/ \E i \in AlarmIds : DeleteAlarm(i)
    \/ \E i \in AlarmIds, d \in Minutes : SnoozeAlarm(i, d)
    \/ \E i \in AlarmIds : GetAlarm(i)
    \/ ListAlarms
    \/ \E k \in 1..Len(tasks) : WaiterStart(k)
    \/ \E k \in 1..Len(tasks) : WaiterWake(k)
    \/ \E k \in 1..Len(tasks) : SinkReturn(k)
    \/ \E k \in 1..Len(tasks) : SinkRaise(k)
    \/ \E k \in 1..Len(tasks) : WaiterCancelled(k)

Spec == Init /\ [][Next]_vars

\* asyncio's event loop runs every ready task and the clock keeps moving; the
\* sink call ends, by returning or by raising.
FairSpec ==
    /\ Spec
    /\ WF_vars(Tick)
    /\ \A k \in 1..MaxInst :
          /\ WF_vars(k \in 1..Len(tasks) /\ WaiterStart(k))
          /\ WF_vars(k \in 1..Len(tasks) /\ WaiterWake(k))
          /\ WF_vars(k \in 1..Len(tasks) /\ (SinkReturn(k) \/ SinkRaise(k)))
          /\ WF_vars(k \in 1..Len(tasks) /\ WaiterCancelled(k))

\* ------------------------------------------------------------- properties
\* The action properties open with vars' # vars: a rejected call and a read
\* leave every variable as it is, and [A]_vars admits such steps whatever A.
Insts == 1..Len(tasks)

\* The k-th Alarm object is in the registry, under id i.
At(i, k) == alarms[i] # None /\ alarms[i].inst = k

Registered(k) == \E i \in AlarmIds : At(i, k)

EntryOf(k) ==
    alarms[CHOOSE i \in AlarmIds : alarms[i] # None /\ alarms[i].inst = k]

\* The send_notification calls made for the k-th Alarm object.
NotifyCalls(k) == {n \in 1..Len(notifications) : notifications[n].inst = k}

Notified(k) == NotifyCalls(k) # {}

\* The k-th waiter can still run its coroutine's code.
Live(k) == tasks[k].pc \notin Finished /\ ~tasks[k].cancel_requested

\* The k-th alarm is out of the registry with its waiter cancelled or finished,
\* and send_notification was never called for it.
Silenced(k) == ~Registered(k) /\ ~Live(k) /\ ~Notified(k)

\* A silenced alarm stays silenced: it never returns to the registry and
\* send_notification is never called for it.
SilencedForGood == \A k \in Insts : Silenced(k) => Silenced(k)'

\* C1: after create_alarm(id, t, m) succeeded, a delete_alarm(id) made before t
\* leaves get_alarm(id) absent and the alarm silenced, also when its waiter has
\* not run yet, and send_notification is never called for that alarm in any
\* later state.
C1_CancelPreventsFire ==
    [][ vars' # vars =>
        /\ \A i \in AlarmIds, k \in Insts :
              (At(i, k) /\ now < alarms[i].time /\ DeleteAlarm(i)) =>
                  /\ get_alarm(St, i)' = None
                  /\ Silenced(k)'
        /\ SilencedForGood ]_vars

\* An alarm deleted at time 0, hence before its deadline, whose waiter had not
\* run yet: one alarm was ever created, under the id that the model never
\* snoozes, so only delete_alarm can have removed it.
C1_Witness ==
    /\ now = 0
    /\ Len(tasks) = 1
    /\ tasks[1].alarm_id = SnoozeId("a")
    /\ tasks[1].pc = "new"
    /\ Silenced(1)

\* C2: a create_alarm(id, t2, m2) with t2 in the future, made while an alarm is
\* registered under id before its deadline t1, leaves under id the new alarm
\* with time t2 and message m2 and one live waiter, the new one; the old alarm
\* is silenced and send_notification is never called for it afterwards.
C2_ReplaceOnReuse ==
    [][ vars' # vars =>
        /\ \A i \in AlarmIds, t \in Times, k \in Insts :
              LET m == Message(Len(tasks) + 1)
              IN  (At(i, k) /\ now < alarms[i].time /\ t > now
                     /\ CreateAlarm(i, t, m)) =>
                      /\ alarms'[i] # None
                      /\ alarms'[i].time = t /\ alarms'[i].message = m
                      /\ alarms'[i].inst # k
                      /\ {j \in 1..Len(tasks') :
                            tasks'[j].alarm_id = i /\ Live(j)'} = {alarms'[i].inst}
                      /\ Silenced(k)'
                      /\ \A n \in 1..Len(notifications') :
                            notifications'[n].message # alarms[i].message
        /\ SilencedForGood ]_vars

\* The first alarm was replaced at time 0, before any deadline, by the second
\* (deadline 2) under the same id; time has moved on and the second alarm is
\* pending, the first silenced.
C2_Witness ==
    /\ Len(tasks) = 2
    /\ tasks[1].alarm_id = tasks[2].alarm_id
    /\ Silenced(1)
    /\ Registered(2) /\ EntryOf(2).time = 2 /\ EntryOf(2).message = Message(2)
    /\ EntryOf(2).created_at = 0
    /\ now = 1
    /\ tasks[2].pc = "sleep"

\* The notification that _trigger_alarm builds from the alarm registered under
\* id i was sent, once, for the k-th Alarm object.
Delivered(i, k) ==
    /\ Cardinality(NotifyCalls(k)) = 1
    /\ \A n \in NotifyCalls(k) :
          /\ notifications[n].alarm_id = i
          /\ notifications[n].message = alarms[i].message
          /\ notifications[n].original_time = alarms[i].time

\* The k-th waiter ends in this step having taken its own alarm out of the
\* registry (a cancellation by delete_alarm never ends the task in the same step).
RetiredByWaiter(k) ==
    Registered(k) /\ ~Registered(k)' /\ tasks'[k].pc \in Finished

\* A caller's delete_alarm, create_alarm or snooze_alarm.
CallerStep ==
    \/ \E i \in AlarmIds : DeleteAlarm(i)
    \/ \E i \in AlarmIds, t \in Times : CreateAlarm(i, t, Message(Len(tasks) + 1))
    \/ \E i \in AlarmIds, d \in Minutes : SnoozeAlarm(i, d)

\* C3: a successful create_alarm(id, t, m) registers an alarm with time t and
\* message m, which stays as it is while registered; only a later delete_alarm,
\* create_alarm or snooze_alarm, or its own waiter, takes it out of the
\* registry; when its own waiter does, send_notification was called once for
\* it with message m and original_time t (or there was no session, hence no
\* sink call, when it fired); and, with the clock advancing and the sink call
\* ending, every registered alarm eventually leaves the registry.
C3_FireRetires ==
    /\ [][ vars' # vars =>
           /\ \A i \in AlarmIds, t \in Times :
                 (t > now /\ CreateAlarm(i, t, Message(Len(tasks) + 1))) =>
                     /\ alarms'[i] # None
                     /\ alarms'[i].time = t
                     /\ alarms'[i].message = Message(Len(tasks) + 1)
           /\ \A i \in AlarmIds, k \in Insts :
                 /\ (At(i, k) /\ Registered(k)') => alarms'[i] = alarms[i]
                 /\ (At(i, k) /\ ~Registered(k)') =>
                       RetiredByWaiter(k) \/ CallerStep
                 /\ (At(i, k) /\ RetiredByWaiter(k)) =>
                       \/ Delivered(i, k) /\ notifications' = notifications
                       \/ ~session /\ tasks[k].pc # "insink" /\ ~Notified(k)' ]_vars
    /\ \A k \in 1..MaxInst : Registered(k) ~> ~Registered(k)

\* The one alarm ever created has fired: its notification went out and its
\* waiter took it out of the registry (a task that asked for its own
\* cancellation in delete_alarm ends cancelled).
C3_Witness ==
    /\ Len(tasks) = 1
    /\ ~Registered(1)
    /\ tasks[1].pc = "cancelled"
    /\ Len(notifications) = 1
    /\ notifications[1].inst = 1 /\ notifications[1].message = Message(1)

\* C4: send_notification is called at most once for every Alarm object, those
\* created by snooze_alarm included.
C4_AtMostOnce ==
    \A k \in Insts : Cardinality(NotifyCalls(k)) <= 1

\* Two alarms were created, the second by snooze_alarm, and both were notified.
C4_Witness ==
    /\ Len(tasks) = 2
    /\ Len(notifications) = 2
    /\ \E n \in 1..2 : notifications[n].message = SnoozeMessage(Message(1))

\* C5: create_alarm with alarm_time <= now returns False and leaves alarms,
\* alarm_tasks and every task as they are, whatever is registered under the id.
C5_NoPastDeadline ==
    \A i \in AlarmIds, t \in Times :
        t <= now =>
            LET S == create_alarm(St, i, t, Message(Len(tasks) + 1))
            IN  /\ S.ret = FALSE
                /\ S.alarms = alarms
                /\ S.alarm_tasks = alarm_tasks
                /\ S.tasks = tasks

\* An alarm is pending, its waiter asleep, and the clock has moved, so a
\* create_alarm under its id with a deadline that is not in the future exists.
C5_Witness ==
    \E i \in AlarmIds :
        /\ alarms[i] # None
        /\ now >= 1 /\ now < alarms[i].time
        /\ tasks[alarms[i].inst].pc = "sleep"

\* C6: delete_alarm and snooze_alarm for an id that is not registered return
\* failure and leave alarms, alarm_tasks and every task as they are.
C6_NotFoundUnchanged ==
    \A i \in AlarmIds :
        alarms[i] = None =>
            /\ LET S == delete_alarm(St, i)
               IN  /\ S.ret = FALSE
                   /\ S.alarms = alarms
                   /\ S.alarm_tasks = alarm_tasks
                   /\ S.tasks = tasks
            /\ \A d \in Minutes :
                  LET S == snooze_alarm(St, i, d)
                  IN  /\ S.ret = FALSE
                      /\ S.alarms = alarms
                      /\ S.alarm_tasks = alarm_tasks
                      /\ S.tasks = tasks

\* "a" is not registered while an alarm is pending under the id a snooze of
\* "a" would use.
C6_Witness ==
    /\ alarms["a"] = None
    /\ alarms[SnoozeId("a")] # None
    /\ Live(alarms[SnoozeId("a")].inst)

\* C7: alarms and alarm_tasks hold the same ids; the handle of a registered id
\* is the task created with its alarm, neither cancelled nor finished; every
\* waiter that can still run is the one alarm_tasks holds for its id.
C7_RegistryWaiterPairing ==
    /\ \A i \in AlarmIds : (alarms[i] # None) <=> (alarm_tasks[i] # NoTask)
    /\ \A i \in AlarmIds :
          alarm_tasks[i] # NoTask =>
              /\ alarm_tasks[i] \in Insts
              /\ Live(alarm_tasks[i])
              /\ tasks[alarm_tasks[i]].alarm_id = i
              /\ alarms[i].inst = alarm_tasks[i]
    /\ \A k \in Insts : Live(k) => alarm_tasks[tasks[k].alarm_id] = k

\* One waiter is suspended in send_notification with its alarm registered,
\* while the other alarm has been cancelled.
C7_Witness ==
    /\ Len(tasks) = 2
    /\ \E i \in AlarmIds :
          alarm_tasks[i] # NoTask /\ tasks[alarm_tasks[i]].pc = "insink"
    /\ \E k \in Insts : ~Live(k) /\ ~Registered(k)

\* C8: an alarm leaves the registry either because its own waiter retired it
\* at the end of the firing protocol, or by a cancellation with
\* send_notification never called for it.
C8_RaceTwoOutcomes ==
    [][ \A k \in Insts :
           (Registered(k) /\ ~Registered(k)') =>
               RetiredByWaiter(k) \/ ~Notified(k) ]_vars

\* C9: delete_alarm(id) while id's waiter is suspended in send_notification
\* changes nothing: the alarm stays registered and the waiter is not cancelled.
C9_LateDeleteNoEffect ==
    [][ \A i \in AlarmIds, k \in Insts :
           (At(i, k) /\ tasks[k].pc = "insink" /\ DeleteAlarm(i)) =>
               UNCHANGED <<alarms, alarm_tasks, tasks>> ]_vars

\* The waiter's step has retired alarm k, registered under id i, without a
\* further send_notification call.
Retired(i, k) ==
    /\ alarms'[i] = None
    /\ alarm_tasks'[i] = NoTask
    /\ ~Registered(k)'
    /\ tasks'[k].pc \in Finished
    /\ \A j \in Insts : j # k => tasks'[j] = tasks[j]

\* C10: once a waiter's deadline has passed uncancelled, its alarm and handle
\* are removed whether there is no session (then send_notification is not
\* called), send_notification returns, or it raises (then it is not called
\* again and the waiter ends as after a return).
C10_SinkNeverBlocksRetirement ==
    [][ vars' # vars =>
        \A i \in AlarmIds, k \in Insts :
           At(i, k) =>
               /\ SinkReturn(k) => Retired(i, k) /\ notifications' = notifications
               /\ SinkRaise(k) => Retired(i, k) /\ notifications' = notifications
               /\ ((WaiterStart(k) \/ WaiterWake(k)) /\ now >= alarms[i].time) =>
                     IF session
                     THEN /\ tasks'[k].pc = "insink"
                          /\ Len(notifications') = Len(notifications) + 1
                          /\ Registered(k)'
                     ELSE Retired(i, k) /\ notifications' = notifications ]_vars

\* The first alarm fired with a session and was retired by its waiter; the
\* second one's waiter is suspended in send_notification and the session has
\* gone meanwhile.
C10_Witness ==
    /\ Len(tasks) = 2
    /\ ~Registered(1) /\ Notified(1) /\ tasks[1].pc = "cancelled"
    /\ Registered(2) /\ tasks[2].pc = "insink"
    /\ ~session

\* The k-th alarm is out of the registry and its waiter cancelled or finished.
Gone(k) == ~Registered(k) /\ ~Live(k)

\* An alarm that is gone stays gone, and send_notification is not called for
\* it any more.
GoneForGood ==
    \A k \in Insts : Gone(k) => Gone(k)' /\ NotifyCalls(k)' = NotifyCalls(k)

C12_SnoozeAtomic ==
    [][ \A i \in AlarmIds, d \in Minutes, k \in Insts :
           (At(i, k) /\ SnoozeAlarm(i, d)) =>
               \/ /\ alarms'[i] = None
                  /\ alarms'[SnoozeId(i)] # None
                  /\ alarms'[SnoozeId(i)].inst = Len(tasks) + 1
               \/ /\ alarms'[i] = alarms[i]
                  /\ alarm_tasks'[i] = alarm_tasks[i]
                  /\ tasks'[k] = tasks[k] ]_vars

\* C13: for every registered alarm and every clock value the remaining time
\* that get_alarm and list_alarms report is deadline - now before the deadline
\* and 0 from the deadline on, never negative, also while the alarm is still
\* registered after its deadline (waiter not resumed, or inside the sink call);
\* list_alarms reports every registered alarm, once.
C13_RemainingNeverNegative ==
    /\ \A i \in AlarmIds :
          alarms[i] # None =>
              LET r == get_alarm(St, i).remaining_seconds
              IN  /\ r >= 0
                  /\ now <= alarms[i].time => r = alarms[i].time - now
                  /\ now >= alarms[i].time => r = 0
    /\ LET L == list_alarms(St)
       IN  /\ Len(L) = Cardinality({i \in AlarmIds : alarms[i] # None})
           /\ \A i \in AlarmIds :
                 alarms[i] # None => \E n \in 1..Len(L) : L[n].id = i
           /\ \A n \in 1..Len(L) :
                 /\ alarms[L[n].id] # None
                 /\ L[n].time = alarms[L[n].id].time
                 /\ L[n].remaining_seconds >= 0
                 /\ now <= L[n].time => L[n].remaining_seconds = L[n].time - now
                 /\ now >= L[n].time => L[n].remaining_seconds = 0

\* Two alarms are registered past their deadlines: the waiter of one is inside
\* send_notification, the other's has not been resumed from its sleep.
C13_Witness ==
    /\ \E i \in AlarmIds :
          /\ alarms[i] # None /\ now > alarms[i].time
          /\ tasks[alarms[i].inst].pc = "insink"
    /\ \E i \in AlarmIds :
          /\ alarms[i] # None /\ now > alarms[i].time
          /\ tasks[alarms[i].inst].pc = "sleep"

\* In this step the t-th waiter starts the firing protocol for the alarm
\* registered under id i: it passes the check after the sleep and either
\* enters send_notification or, without a session, goes on to delete the alarm.
FiringStarts(t, i) ==
    /\ tasks[t].alarm_id = i
    /\ tasks[t].pc \in {"new", "sleep"}
    /\ alarms[i] # None
    /\ \/ tasks'[t].pc = "insink"
       \/ tasks'[t].pc \in Finished /\ alarms'[i] = None

\* C14: the firing protocol for an alarm starts only at or after that alarm's
\* own deadline and is run by the waiter created with it, never by the waiter
\* of an earlier alarm of the same id; every send_notification call is made at
\* or after the deadline it reports, for the alarm with that deadline.
C14_NeverEarly ==
    /\ [][ vars' # vars =>
           \A t \in Insts, i \in AlarmIds :
               FiringStarts(t, i) =>
                   /\ now >= alarms[i].time
                   /\ alarms[i].inst = t ]_vars
    /\ [](\A n \in 1..Len(notifications) :
             notifications[n].triggered_at >= notifications[n].original_time)

\* The first alarm (deadline 1) was replaced under the same id by the second
\* (deadline 2); time 1 went by without a notification, and the second fired
\* at time 2.
C14_Witness ==
    /\ Len(tasks) = 2
    /\ tasks[1].alarm_id = tasks[2].alarm_id
    /\ ~Notified(1) /\ tasks[1].pc \in Finished
    /\ Len(notifications) = 1
    /\ notifications[1].inst = 2
    /\ notifications[1].original_time = 2
    /\ notifications[1].triggered_at = 2

\* C15: when a waiter retires its own alarm, no cancellation is requested of
\* that waiter, which ends done and not cancelled, nor of any other waiter.
C15_RetireRequestsNoCancel ==
    [][ \A k \in Insts :
           RetiredByWaiter(k) =>
               /\ ~tasks'[k].cancel_requested
               /\ tasks'[k].pc = "done"
               /\ \A j \in Insts : j # k => tasks'[j] = tasks[j] ]_vars

\* A step of the t-th waiter.
WaiterStep(t) ==
    \/ WaiterStart(t)
    \/ WaiterWake(t)
    \/ SinkReturn(t)
    \/ SinkRaise(t)
    \/ WaiterCancelled(t)

\* C16: a waiter never changes, notifies for or removes an alarm other than
\* the one it was created with, and never touches that alarm's waiter, also
\* when the other alarm was created under its id while it was inside
\* send_notification or woken but not resumed; an id whose alarm has fired or
\* been cancelled is free at once: the next create_alarm with a future time
\* registers a new alarm with a live waiter of its own; an alarm leaves the
\* registry only by its own waiter's firing, by a delete_alarm (snooze_alarm's
\* included) or by a replacing create_alarm (snooze_alarm's included).
C16_NoTouchSuccessor ==
    /\ [][ vars' # vars =>
           /\ \A i \in AlarmIds, k \in Insts :
                 At(i, k) =>
                     \/ /\ alarms'[i] = alarms[i]
                        /\ alarm_tasks'[i] = alarm_tasks[i]
                        /\ tasks'[k] = tasks[k]
                        /\ NotifyCalls(k)' = NotifyCalls(k)
                     \/ \A t \in Insts \ {k} : ~WaiterStep(t)
           /\ \A i \in AlarmIds, k \in Insts :
                 (At(i, k) /\ ~Registered(k)') =>
                     \/ RetiredByWaiter(k) /\ WaiterStep(k)
                     \/ DeleteAlarm(i)
                     \/ \E t \in Times :
                           t > now /\ CreateAlarm(i, t, Message(Len(tasks) + 1))
                     \/ \E d \in Minutes : SnoozeAlarm(i, d)
                     \/ \E j \in AlarmIds, d \in Minutes :
                           SnoozeId(j) = i /\ d > 0 /\ SnoozeAlarm(j, d) ]_vars
    /\ [](\A i \in AlarmIds, t \in Times :
             (alarms[i] = None /\ t > now) =>
                 LET S == create_alarm(St, i, t, Message(Len(tasks) + 1))
                     n == Len(tasks) + 1
                 IN  /\ S.ret = TRUE
                     /\ S.alarms[i] # None /\ S.alarms[i].inst = n
                     /\ S.alarms[i].time = t
                     /\ S.alarm_tasks[i] = n
                     /\ Len(S.tasks) = n /\ S.tasks[n].pc = "new"
                     /\ ~S.tasks[n].cancel_requested
                     /\ \A k \in Insts : S.tasks[k] = tasks[k])

\* The first alarm was replaced under its id while its waiter was inside
\* send_notification; that waiter has since ended, and the second alarm is
\* registered, untouched, with its waiter asleep.
C16_Witness ==
    /\ Len(tasks) = 2
    /\ tasks[1].alarm_id = tasks[2].alarm_id
    /\ Notified(1) /\ tasks[1].pc = "done" /\ tasks[1].cancel_requested
    /\ Registered(2) /\ ~Notified(2)
    /\ tasks[2].pc = "sleep" /\ ~tasks[2].cancel_requested
    /\ EntryOf(2).message = Message(2)

\* C17: while a waiter is suspended in its sleep or inside send_notification
\* (which need never return), create_alarm, delete_alarm, get_alarm,
\* list_alarms and snooze_alarm on the other ids can run, and a waiter of
\* another id that has not been cancelled can take its next step; when that
\* waiter's deadline has passed, the step starts its firing protocol.
C17_WaitersIndependent ==
    [](/\ (\E k \in Insts : tasks[k].pc \in {"sleep", "insink"}) =>
              ENABLED ListAlarms
       /\ \A i \in AlarmIds :
          (\E k \in Insts :
              tasks[k].pc \in {"sleep", "insink"} /\ tasks[k].alarm_id # i) =>
              /\ ENABLED DeleteAlarm(i)
              /\ ENABLED GetAlarm(i)
              /\ \A t \in Times :
                    (t <= now \/ Len(tasks) < MaxInst) =>
                        ENABLED CreateAlarm(i, t, Message(Len(tasks) + 1))
              /\ \A d \in Minutes :
                    (alarms[i] # None =>
                        /\ SnoozeId(i) \in AlarmIds
                        /\ now + d \in Times
                        /\ d <= 0 \/ Len(tasks) < MaxInst) =>
                        ENABLED SnoozeAlarm(i, d)
              /\ \A j \in Insts :
                    (tasks[j].alarm_id = i /\ Live(j)) =>
                        /\ tasks[j].pc = "new" =>
                              IF alarms[i] # None /\ now >= alarms[i].time
                              THEN ENABLED (WaiterStart(j) /\ FiringStarts(j, i))
                              ELSE ENABLED WaiterStart(j)
                        /\ (tasks[j].pc = "sleep" /\ now >= tasks[j].wake) =>
                              IF alarms[i] # None /\ now >= alarms[i].time
                              THEN ENABLED (WaiterWake(j) /\ FiringStarts(j, i))
                              ELSE ENABLED WaiterWake(j)
                        /\ tasks[j].pc = "insink" =>
                              ENABLED SinkReturn(j) /\ ENABLED SinkRaise(j))

\* The first waiter is still inside send_notification; the clock went on to
\* the deadline of the alarm of the other id, whose waiter started its own
\* firing protocol and is inside send_notification as well.
C17_Witness ==
    /\ Len(tasks) = 2
    /\ tasks[1].alarm_id # tasks[2].alarm_id
    /\ tasks[1].pc = "insink" /\ tasks[2].pc = "insink"
    /\ Len(notifications) = 2
    /\ notifications[1].inst = 1 /\ notifications[2].inst = 2
    /\ notifications[1].triggered_at < notifications[2].triggered_at

\* In this step the t-th waiter, not cancelled, has its deadline behind it and
\* comes to the check of line 76: it wakes from the sleep, or takes its first
\* step when the deadline has already passed.
PassesDeadline(t) ==
    \/ WaiterWake(t)
    \/ /\ WaiterStart(t)
       /\ alarms[tasks[t].alarm_id] # None
       /\ now >= alarms[tasks[t].alarm_id].time

\* C18: every registered alarm has active = TRUE and a waiter that has not
\* finished; a waiter that is not cancelled and whose deadline has passed
\* starts the firing protocol exactly when its alarm is still registered, and
\* otherwise ends without changing the registry or notifying.
C18_ActiveNeverGates ==
    /\ [](\A i \in AlarmIds :
             alarms[i] # None =>
                 /\ alarms[i].active = TRUE
                 /\ tasks[alarms[i].inst].pc \notin Finished)
    /\ [][ vars' # vars =>
           \A t \in Insts :
               PassesDeadline(t) =>
                   IF alarms[tasks[t].alarm_id] # None
                   THEN FiringStarts(t, tasks[t].alarm_id)
                   ELSE /\ tasks'[t].pc \in Finished
                        /\ UNCHANGED <<alarms, alarm_tasks, notifications>> ]_vars

\* Without a session an alarm fired at its deadline and was retired by its
\* waiter, which had slept; the other alarm is registered, active.
C18_Witness ==
    /\ Len(tasks) = 2
    /\ ~Registered(1) /\ ~Notified(1)
    /\ tasks[1].pc = "cancelled" /\ now >= 1
    /\ tasks[1].alarm_id # tasks[2].alarm_id
    /\ alarm_tasks[tasks[1].alarm_id] = NoTask
    /\ Registered(2) /\ EntryOf(2).active /\ EntryOf(2).created_at >= 1
    /\ Len(notifications) = 0

\* Something of id j changes in this step: its alarm, its handle or a task
\* made for it.
Changed(j) ==
    \/ alarms'[j] # alarms[j]
    \/ alarm_tasks'[j] # alarm_tasks[j]
    \/ \E k \in Insts : tasks[k].alarm_id = j /\ tasks'[k] # tasks[k]

====
